---- MODULE Spec2Model ----
(***************************************************************************)
(* A model of the collection-and-aggregation pipeline of collector.py:     *)
(* get_all_user_activity (paginated fetch), remove_duplicates,             *)
(* group_by_market, save_market_to_csv and process_wallet.                 *)
(*                                                                         *)
(* Python values are tagged, so that None, "" and 0 stay distinct and a    *)
(* string never compares equal to a tuple: PyNone, PyStr(s), PyInt(n),     *)
(* PyTuple(<<...>>), PyDict(slug).  An activity is the JSON object of the  *)
(* remote API restricted to the keys the pipeline reads; a key that is     *)
(* absent reads as None, as dict.get gives it.                             *)
(***************************************************************************)
EXTENDS Integers, Sequences, FiniteSets, TLC

VARIABLES
    entry,          \* the function the run calls: its name
    pc,             \* the position of the run
    remote,         \* the remote dataset, newest first: a sequence of runs
    max_records,    \* argument of get_all_user_activity / process_wallet
    offset,         \* get_all_user_activity: local offset
    all_activities, \* get_all_user_activity: local all_activities, each record
                    \* held by its position in the remote dataset
    requests,       \* the offsets of the page requests issued, in order
    request_error,  \* the RequestException caught at line 87, "" if none
    fetched,        \* the value get_all_user_activity returned
    activities,     \* argument of remove_duplicates / group_by_market; the
                    \* local activities of process_wallet
    unique_activities, \* the value remove_duplicates returned
    markets,        \* the value group_by_market returned: a dict, as the
                    \* sequence of its items in insertion order
    market_slug,    \* save_market_to_csv: argument market_slug
    market_activities, \* save_market_to_csv: argument activities
    row_i,          \* save_market_to_csv: index of the next activity to write
    result,         \* the value save_market_to_csv returned
    dirs,           \* the directories that exist
    files,          \* the files that exist: path -> header and rows written
    exc,            \* the exception that left the run uncaught, "" if none
    market_i,       \* process_wallet: index of the next item of markets
    saved_count,    \* process_wallet: local saved_count
    skipped_markets, \* process_wallet: local skipped_markets
    gate_calls,     \* the slugs save_market_to_csv was called with, in order
    summary         \* the summary process_wallet printed (lines 235-243)

fetchVars == <<max_records, offset, all_activities, requests, request_error, fetched>>
pureVars == <<activities, unique_activities, markets>>

saveVars == <<market_slug, market_activities, row_i, result, dirs, files, exc>>
walletVars == <<market_i, saved_count, skipped_markets, gate_calls, summary>>

vars == <<entry, pc, remote, fetchVars, pureVars, saveVars, walletVars>>

(***************************************************************************)
(* Python values                                                           *)
(***************************************************************************)
PyNone == [t |-> "None"]
PyStr(s) == [t |-> "str", v |-> s]
PyInt(n) == [t |-> "int", v |-> n]
PyTuple(s) == [t |-> "tuple", v |-> s]
\* A nested 'market' object, with the value of its 'slug' key.
PyDict(slug) == [t |-> "dict", slug |-> slug]

\* Python truthiness of the values above (if x: ...).
Truthy(x) ==
    CASE x.t = "None" -> FALSE
      [] x.t = "str" -> x.v # ""
      [] x.t = "int" -> x.v # 0
      [] OTHER -> TRUE

\* TLC evaluates the arguments of an operator on demand: Then(v, e) is e, with
\* v evaluated first, so that a loop's state is computed step after step.
Then(v, e) == IF v = v THEN e ELSE e

Min(a, b) == IF a < b THEN a ELSE b
Max(a, b) == IF a > b THEN a ELSE b

(***************************************************************************)
(* Program constants                                                       *)
(***************************************************************************)
limit == 500
OffsetCeiling == 10000

(***************************************************************************)
(* Activities and the remote endpoint                                      *)
(***************************************************************************)
Activity(hash, ts, type, market, slug, side) ==
    [transactionHash |-> hash, timestamp |-> ts, type |-> type,
     market |-> market, slug |-> slug, side |-> side]

\* A run of the remote dataset: n consecutive records made from one template;
\* with uniq, each carries a transactionHash of its own (its position).
Run(n, rec, uniq) == [n |-> n, rec |-> rec, uniq |-> uniq]

RECURSIVE RemoteLenOf(_)
RemoteLenOf(runs) ==
    IF runs = <<>> THEN 0 ELSE Head(runs).n + RemoteLenOf(Tail(runs))

\* The record at position p (1-based, newest first) of the dataset.
RECURSIVE RecordAt(_, _, _)
RecordAt(runs, p, pos) ==
    LET r == Head(runs) IN
    IF p <= r.n
    THEN IF r.uniq
         THEN [r.rec EXCEPT !.transactionHash = PyStr("0x" \o ToString(pos))]
         ELSE r.rec
    ELSE RecordAt(Tail(runs), p - r.n, pos)

\* The endpoint's answer to GET ?limit=lim&offset=off: the slice of the dataset
\* at off, at most lim records, each given by its position in the dataset.
Page(runs, off, lim) ==
    LET n == Min(lim, Max(0, RemoteLenOf(runs) - off))
    IN [i \in 1..n |-> off + i]

\* The JSON objects behind a sequence of positions.
Records(runs, refs) ==
    [i \in 1..Len(refs) |-> RecordAt(runs, refs[i], refs[i])]

\* The exceptions requests.get, raise_for_status and response.json raise; each
\* is a requests.exceptions.RequestException.
RequestExceptions == {"Timeout", "HTTPError", "JSONDecodeError"}

(***************************************************************************)
(* get_all_user_activity                                                   *)
(***************************************************************************)
\* Mutants of the while condition: the ceiling test dropped; the ceiling one page
\* late; the budget test with <= for <.
FetchCondition_NoCeiling(len, max, off) == len < max
FetchCondition_PageLate(len, max, off) == len < max /\ off <= OffsetCeiling + limit
FetchCondition_BudgetInclusive(len, max, off) == len <= max /\ off <= OffsetCeiling

\* The while condition of line 57.
FetchCondition(len, max, off) == len < max /\ off <= OffsetCeiling

\* Lines 47-55: the call, with its locals.
FetchEnter ==
    /\ pc = "fetch_call"
    /\ all_activities' = <<>>
    /\ offset' = 0
    /\ pc' = "fetch_loop"
    /\ UNCHANGED <<entry, remote, max_records, requests, request_error, fetched>>
    /\ UNCHANGED <<pureVars, saveVars, walletVars>>

\* Line 57 false: the loop ends.
FetchExit ==
    /\ pc = "fetch_loop"
    /\ ~FetchCondition(Len(all_activities), max_records, offset)
    /\ pc' = "fetch_return"
    /\ UNCHANGED <<entry, remote, fetchVars>>
    /\ UNCHANGED <<pureVars, saveVars, walletVars>>

\* Mutant: the failed page is asked for again.
FetchFail_Retry ==
    /\ pc = "fetch_loop"
    /\ FetchCondition(Len(all_activities), max_records, offset)
    /\ \E e \in RequestExceptions : request_error' = e
    /\ requests' = Append(requests, offset)
    /\ pc' = "fetch_loop"
    /\ UNCHANGED <<entry, remote, max_records, offset, all_activities, fetched>>
    /\ UNCHANGED <<pureVars, saveVars, walletVars>>

\* Lines 66-69/71 raise, lines 87-89 catch: break.
FetchFail ==
    /\ pc = "fetch_loop"
    /\ FetchCondition(Len(all_activities), max_records, offset)
    /\ \E e \in RequestExceptions : request_error' = e
    /\ requests' = Append(requests, offset)
    /\ pc' = "fetch_return"
    /\ UNCHANGED <<entry, remote, max_records, offset, all_activities, fetched>>
    /\ UNCHANGED <<pureVars, saveVars, walletVars>>

\* Lines 73-75: an empty page, break.
FetchEmpty ==
    /\ pc = "fetch_loop"
    /\ FetchCondition(Len(all_activities), max_records, offset)
    /\ Len(Page(remote, offset, limit)) = 0
    /\ requests' = Append(requests, offset)
    /\ pc' = "fetch_return"
    /\ UNCHANGED <<entry, remote, max_records, offset, all_activities,
                   request_error, fetched>>
    /\ UNCHANGED <<pureVars, saveVars, walletVars>>

\* Mutant: the short page ends the loop before it is kept.
FetchLastPage_Dropped ==
    /\ pc = "fetch_loop"
    /\ FetchCondition(Len(all_activities), max_records, offset)
    /\ LET data == Page(remote, offset, limit) IN
         /\ Len(data) # 0
         /\ Len(data) < limit
    /\ requests' = Append(requests, offset)
    /\ pc' = "fetch_return"
    /\ UNCHANGED <<entry, remote, max_records, offset, all_activities,
                   request_error, fetched>>
    /\ UNCHANGED <<pureVars, saveVars, walletVars>>

\* Lines 78-82: a page shorter than limit is kept, break.
FetchLastPage ==
    /\ pc = "fetch_loop"
    /\ FetchCondition(Len(all_activities), max_records, offset)
    /\ LET data == Page(remote, offset, limit) IN
         /\ Len(data) # 0
         /\ Len(data) < limit
         /\ all_activities' = all_activities \o data
    /\ requests' = Append(requests, offset)
    /\ pc' = "fetch_return"
    /\ UNCHANGED <<entry, remote, max_records, offset, request_error, fetched>>
    /\ UNCHANGED <<pureVars, saveVars, walletVars>>

\* Lines 78-85: a full page is kept, the offset advances, the loop goes on.
FetchFullPage ==
    /\ pc = "fetch_loop"
    /\ FetchCondition(Len(all_activities), max_records, offset)
    /\ LET data == Page(remote, offset, limit) IN
         /\ Len(data) # 0
         /\ ~(Len(data) < limit)
         /\ all_activities' = all_activities \o data
    /\ requests' = Append(requests, offset)
    /\ offset' = offset + limit
    /\ pc' = "fetch_loop"
    /\ UNCHANGED <<entry, remote, max_records, request_error, fetched>>
    /\ UNCHANGED <<pureVars, saveVars, walletVars>>

\* Lines 91-92: return all_activities.
FetchReturn ==
    /\ pc = "fetch_return"
    /\ fetched' = all_activities
    /\ pc' = IF entry = "process_wallet" THEN "pw_fetched" ELSE "done"
    /\ UNCHANGED <<entry, remote, max_records, offset, all_activities,
                   requests, request_error>>
    /\ UNCHANGED <<pureVars, saveVars, walletVars>>

(***************************************************************************)
(* remove_duplicates                                                       *)
(***************************************************************************)
\* Lines 102-113: the transactionHash when it is truthy, else the tuple of
\* timestamp, type, the slug of a nested 'market' dict (None when 'market' is
\* no dict) and side.
unique_key(activity) ==
    LET tx_hash == activity.transactionHash IN
    IF Truthy(tx_hash)
    THEN tx_hash
    ELSE PyTuple(<<activity.timestamp,
                   activity.type,
                   IF activity.market.t = "dict" THEN activity.market.slug ELSE PyNone,
                   activity.side>>)

\* Mutant: a key seen before replaces the record kept for it.
DedupStep_KeepLast(st, activity) ==
    LET key == unique_key(activity) IN
    IF key \notin st.seen
    THEN [seen |-> st.seen \cup {key}, unique |-> Append(st.unique, activity)]
    ELSE [st EXCEPT !.unique =
            [i \in 1..Len(@) |-> IF unique_key(@[i]) = key THEN activity ELSE @[i]]]

\* Lines 102-119: one activity, with seen and unique_activities in st.
DedupStep(st, activity) ==
    LET key == unique_key(activity) IN
    IF key \notin st.seen
    THEN [seen |-> st.seen \cup {key}, unique |-> Append(st.unique, activity)]
    ELSE st

\* Lines 101-119: the loop over acts[lo..hi], entered with st; the range is
\* walked left to right, half by half.
RECURSIVE DedupLoop(_, _, _, _)
DedupLoop(acts, lo, hi, st) ==
    IF lo > hi THEN st
    ELSE IF lo = hi THEN DedupStep(st, acts[lo])
    ELSE LET mid == (lo + hi) \div 2
             left == DedupLoop(acts, lo, mid, st)
         IN Then(left, DedupLoop(acts, mid + 1, hi, left))

\* Lines 95-124.
remove_duplicates(acts) ==
    DedupLoop(acts, 1, Len(acts), [seen |-> {}, unique |-> <<>>]).unique

(***************************************************************************)
(* group_by_market                                                         *)
(***************************************************************************)
\* markets[slug].append(activity) on a defaultdict(list): a new key goes last.
MarketsAppend(mkts, slug, activity) ==
    IF \E j \in 1..Len(mkts) : mkts[j].slug = slug
    THEN [j \in 1..Len(mkts) |->
            IF mkts[j].slug = slug
            THEN [mkts[j] EXCEPT !.activities = Append(@, activity)]
            ELSE mkts[j]]
    ELSE Append(mkts, [slug |-> slug, activities |-> <<activity>>])

\* Mutant: only an absent slug is left out (if slug is not None).
GroupStep_NotNone(mkts, activity) ==
    LET slug == activity.slug IN
    IF slug # PyNone THEN MarketsAppend(mkts, slug, activity) ELSE mkts

\* Lines 132-134: one activity.
GroupStep(mkts, activity) ==
    LET slug == activity.slug IN
    IF Truthy(slug) THEN MarketsAppend(mkts, slug, activity) ELSE mkts

\* Lines 130-134: the loop over acts[lo..hi], entered with mkts; the range is
\* walked left to right, half by half.
RECURSIVE GroupLoop(_, _, _, _)
GroupLoop(acts, lo, hi, mkts) ==
    IF lo > hi THEN mkts
    ELSE IF lo = hi THEN GroupStep(mkts, acts[lo])
    ELSE LET mid == (lo + hi) \div 2
             left == GroupLoop(acts, lo, mid, mkts)
         IN Then(left, GroupLoop(acts, mid + 1, hi, left))

\* Lines 127-135.
group_by_market(acts) == GroupLoop(acts, 1, Len(acts), <<>>)

\* remove_duplicates called on its own.
RemoveDuplicatesCall ==
    /\ pc = "call"
    /\ entry = "remove_duplicates"
    /\ unique_activities' = remove_duplicates(activities)
    /\ pc' = "done"
    /\ UNCHANGED <<entry, remote, fetchVars, activities, markets, saveVars, walletVars>>

\* group_by_market called on its own.
GroupByMarketCall ==
    /\ pc = "call"
    /\ entry = "group_by_market"
    /\ markets' = group_by_market(activities)
    /\ pc' = "done"
    /\ UNCHANGED <<entry, remote, fetchVars, activities, unique_activities,
                   saveVars, walletVars>>

(***************************************************************************)
(* save_market_to_csv                                                      *)
(***************************************************************************)
MinTrades == 30

\* os.path.join(OUTPUT_ROOT, wallet_name), line 221.
output_dir == "/root/mcollect/data/wallet"

\* Line 151: os.path.join(output_dir, f"{market_slug}.csv").
FilePath(dir, slug) == dir \o "/" \o slug.v \o ".csv"

\* Line 144: sum(1 for a in activities if a.get('type') == 'TRADE'), over
\* acts[lo..hi], half by half.
RECURSIVE TradeCountIn(_, _, _)
TradeCountIn(acts, lo, hi) ==
    IF lo > hi THEN 0
    ELSE IF lo = hi THEN (IF acts[lo].type = PyStr("TRADE") THEN 1 ELSE 0)
    ELSE LET mid == (lo + hi) \div 2
         IN TradeCountIn(acts, lo, mid) + TradeCountIn(acts, mid + 1, hi)
TradeCount(acts) == TradeCountIn(acts, 1, Len(acts))

\* Mutant: a group of exactly 30 trades is skipped too.
BelowThreshold_Inclusive(trade_count) == trade_count <= MinTrades

\* Line 147.
BelowThreshold(trade_count) == trade_count < MinTrades

\* The text csv.DictWriter writes for a value: '' for None, str(value) else.
Cell(x) ==
    CASE x.t = "None" -> ""
      [] x.t = "str" -> x.v
      [] x.t = "int" -> ToString(x.v)

\* The decimal strings int() is given in this model, with their values.
ParsableInts == {1700000000}

\* int(x) of line 170: an int as it is, a string by its decimal value, and
\* ValueError for a string that is no integer literal.
IntOf(x) ==
    CASE x.t = "int" -> [ok |-> TRUE, v |-> x.v]
      [] x.t = "str" /\ (\E n \in ParsableInts : ToString(n) = x.v) ->
            [ok |-> TRUE, v |-> CHOOSE n \in ParsableInts : ToString(n) = x.v]
      [] x.t = "str" -> [ok |-> FALSE, exc |-> "ValueError"]
      [] OTHER -> [ok |-> FALSE, exc |-> "TypeError"]

Pad2(n) == IF n < 10 THEN "0" \o ToString(n) ELSE ToString(n)
Pad4(n) ==
    IF n < 10 THEN "000" \o ToString(n)
    ELSE IF n < 100 THEN "00" \o ToString(n)
    ELSE IF n < 1000 THEN "0" \o ToString(n)
    ELSE ToString(n)

\* datetime.fromtimestamp(n, tz=timezone.utc).strftime('%Y-%m-%d %H:%M:%S'):
\* the proleptic Gregorian date of day n div 86400 since 1970-01-01.
FormatUTC(n) ==
    LET days == n \div 86400
        secs == n % 86400
        z == days + 719468
        era == z \div 146097
        doe == z - era * 146097
        yoe == (doe - (doe \div 1460) + (doe \div 36524) - (doe \div 146096)) \div 365
        doy == doe - (365 * yoe + (yoe \div 4) - (yoe \div 100))
        mp == (5 * doy + 2) \div 153
        d == doy - ((153 * mp + 2) \div 5) + 1
        m == IF mp < 10 THEN mp + 3 ELSE mp - 9
        y == yoe + era * 400 + (IF m <= 2 THEN 1 ELSE 0)
    IN Pad4(y) \o "-" \o Pad2(m) \o "-" \o Pad2(d) \o " " \o
       Pad2(secs \div 3600) \o ":" \o Pad2((secs % 3600) \div 60) \o ":" \o Pad2(secs % 60)

\* Lines 169-172: the 'datetime' cell, or the exception its evaluation raises.
\* datetime.fromtimestamp takes the years 1 to 9999, which hold every integer
\* of the model (32 bits).
DatetimeCell(ts) ==
    IF ~Truthy(ts) THEN [ok |-> TRUE, v |-> ""]
    ELSE LET n == IntOf(ts) IN
         IF ~n.ok THEN n
         ELSE [ok |-> TRUE, v |-> FormatUTC(n.v)]

\* Lines 167-193: the row of an activity, for the keys of the model (the other
\* columns are copied the same way as 'type' and 'side').
Row(activity) ==
    [timestamp |-> Cell(activity.timestamp),
     datetime |-> DatetimeCell(activity.timestamp).v,
     type |-> Cell(activity.type),
     side |-> Cell(activity.side),
     transactionHash |-> Cell(activity.transactionHash),
     slug |-> Cell(activity.slug)]

\* Where save_market_to_csv returns to.
AfterSave == IF entry = "process_wallet" THEN "pw_result" ELSE "done"

\* Lines 140-141: an empty group, return None.
SaveEmpty ==
    /\ pc = "save_call"
    /\ market_activities = <<>>
    /\ result' = PyNone
    /\ pc' = AfterSave
    /\ UNCHANGED <<entry, remote, fetchVars, pureVars, walletVars,
                   market_slug, market_activities, row_i, dirs, files, exc>>

\* Lines 144-148: fewer than 30 TRADE records, return the skipped marker.
SaveSkip ==
    /\ pc = "save_call"
    /\ market_activities # <<>>
    /\ LET trade_count == TradeCount(market_activities) IN
         /\ BelowThreshold(trade_count)
         /\ result' = [t |-> "dict", slug |-> market_slug,
                       trades |-> trade_count, skipped |-> TRUE]
    /\ pc' = AfterSave
    /\ UNCHANGED <<entry, remote, fetchVars, pureVars, walletVars,
                   market_slug, market_activities, row_i, dirs, files, exc>>

\* Line 150: os.makedirs(output_dir, exist_ok=True).
SaveMakedirs ==
    /\ pc = "save_call"
    /\ market_activities # <<>>
    /\ ~BelowThreshold(TradeCount(market_activities))
    /\ dirs' = dirs \cup {output_dir}
    /\ pc' = "save_open"
    /\ UNCHANGED <<entry, remote, fetchVars, pureVars, walletVars,
                   market_slug, market_activities, row_i, result, files, exc>>

\* Line 150 raises OSError (no permission, read-only file system).
SaveMakedirsFail ==
    /\ pc = "save_call"
    /\ market_activities # <<>>
    /\ ~BelowThreshold(TradeCount(market_activities))
    /\ exc' = "OSError"
    /\ pc' = "raised"
    /\ UNCHANGED <<entry, remote, fetchVars, pureVars, walletVars,
                   market_slug, market_activities, row_i, result, dirs, files>>

\* Lines 161-163: the file is created or truncated and the header written.
SaveOpen ==
    /\ pc = "save_open"
    /\ files' = (FilePath(output_dir, market_slug) :> [header |-> TRUE, rows |-> <<>>]) @@ files
    /\ row_i' = 1
    /\ pc' = "save_rows"
    /\ UNCHANGED <<entry, remote, fetchVars, pureVars, walletVars,
                   market_slug, market_activities, result, dirs, exc>>

\* Line 161 raises OSError.
SaveOpenFail ==
    /\ pc = "save_open"
    /\ exc' = "OSError"
    /\ pc' = "raised"
    /\ UNCHANGED <<entry, remote, fetchVars, pureVars, walletVars,
                   market_slug, market_activities, row_i, result, dirs, files>>

\* Lines 165-194: one activity, its row built and written.
SaveWriteRow ==
    /\ pc = "save_rows"
    /\ row_i <= Len(market_activities)
    /\ DatetimeCell(market_activities[row_i].timestamp).ok
    /\ LET path == FilePath(output_dir, market_slug) IN
         files' = [files EXCEPT ![path].rows = Append(@, Row(market_activities[row_i]))]
    /\ row_i' = row_i + 1
    /\ UNCHANGED <<entry, pc, remote, fetchVars, pureVars, walletVars,
                   market_slug, market_activities, result, dirs, exc>>

\* Lines 169-172 raise: int() of a timestamp that is no integer.  The rows
\* written so far stay.
SaveRowError ==
    /\ pc = "save_rows"
    /\ row_i <= Len(market_activities)
    /\ ~DatetimeCell(market_activities[row_i].timestamp).ok
    /\ exc' = DatetimeCell(market_activities[row_i].timestamp).exc
    /\ pc' = "raised"
    /\ UNCHANGED <<entry, remote, fetchVars, pureVars, walletVars,
                   market_slug, market_activities, row_i, result, dirs, files>>

\* Line 194 (or the close of line 161's with) raises OSError: disk full.  The
\* rows written so far stay.
SaveWriteFail ==
    /\ pc = "save_rows"
    /\ exc' = "OSError"
    /\ pc' = "raised"
    /\ UNCHANGED <<entry, remote, fetchVars, pureVars, walletVars,
                   market_slug, market_activities, row_i, result, dirs, files>>

\* Line 196: return filepath.
SaveReturn ==
    /\ pc = "save_rows"
    /\ row_i > Len(market_activities)
    /\ result' = PyStr(FilePath(output_dir, market_slug))
    /\ pc' = AfterSave
    /\ UNCHANGED <<entry, remote, fetchVars, pureVars, walletVars,
                   market_slug, market_activities, row_i, dirs, files, exc>>

SaveIdle ==
    /\ market_slug = PyNone
    /\ market_activities = <<>>
    /\ row_i = 0
    /\ result = PyNone
    /\ dirs = {}
    /\ files = <<>>
    /\ exc = ""

(***************************************************************************)
(* process_wallet                                                          *)
(***************************************************************************)
\* Lines 199-207: the call of get_all_user_activity.
PwEnter ==
    /\ pc = "pw_call"
    /\ pc' = "fetch_call"
    /\ UNCHANGED <<entry, remote, fetchVars, pureVars, saveVars, walletVars>>

\* Mutant: the empty batch falls through to remove_duplicates.
PwNoActivities_FallThrough ==
    /\ pc = "pw_fetched"
    /\ fetched = <<>>
    /\ activities' = remove_duplicates(Records(remote, fetched))
    /\ pc' = "pw_group"
    /\ UNCHANGED <<entry, remote, fetchVars, unique_activities, markets,
                   saveVars, walletVars>>

\* Lines 207-211: an empty batch, return.
PwNoActivities ==
    /\ pc = "pw_fetched"
    /\ fetched = <<>>
    /\ activities' = <<>>
    /\ pc' = "done"
    /\ UNCHANGED <<entry, remote, fetchVars, unique_activities, markets,
                   saveVars, walletVars>>

\* Lines 207-214: activities = remove_duplicates(activities).
PwRemoveDuplicates ==
    /\ pc = "pw_fetched"
    /\ fetched # <<>>
    /\ activities' = remove_duplicates(Records(remote, fetched))
    /\ pc' = "pw_group"
    /\ UNCHANGED <<entry, remote, fetchVars, unique_activities, markets,
                   saveVars, walletVars>>

\* Lines 217-225: markets = group_by_market(activities), the counters.
PwGroupByMarket ==
    /\ pc = "pw_group"
    /\ markets' = group_by_market(activities)
    /\ saved_count' = 0
    /\ skipped_markets' = <<>>
    /\ market_i' = 1
    /\ pc' = "pw_loop"
    /\ UNCHANGED <<entry, remote, fetchVars, activities, unique_activities,
                   saveVars, gate_calls, summary>>

\* Lines 227-228: the next item of markets, save_market_to_csv called with it.
PwSaveMarket ==
    /\ pc = "pw_loop"
    /\ market_i <= Len(markets)
    /\ market_slug' = markets[market_i].slug
    /\ market_activities' = markets[market_i].activities
    /\ gate_calls' = Append(gate_calls, markets[market_i].slug)
    /\ pc' = "save_call"
    /\ UNCHANGED <<entry, remote, fetchVars, pureVars, row_i, result, dirs,
                   files, exc, market_i, saved_count, skipped_markets, summary>>

\* Mutant: line 231 with if for elif, a skipped group counted as saved too.
PwResult_CountsSkipped ==
    /\ pc = "pw_result"
    /\ IF Truthy(result) /\ result.t = "dict" /\ result.skipped
       THEN skipped_markets' = Append(skipped_markets, <<result.slug, result.trades>>)
       ELSE skipped_markets' = skipped_markets
    /\ IF Truthy(result)
       THEN saved_count' = saved_count + 1
       ELSE saved_count' = saved_count
    /\ market_i' = market_i + 1
    /\ pc' = "pw_loop"
    /\ UNCHANGED <<entry, remote, fetchVars, pureVars, saveVars, gate_calls, summary>>

\* Lines 229-233: the result is counted as skipped or as saved.
PwResult ==
    /\ pc = "pw_result"
    /\ IF Truthy(result) /\ result.t = "dict" /\ result.skipped
       THEN /\ skipped_markets' = Append(skipped_markets, <<result.slug, result.trades>>)
            /\ saved_count' = saved_count
       ELSE IF Truthy(result)
       THEN /\ saved_count' = saved_count + 1
            /\ skipped_markets' = skipped_markets
       ELSE UNCHANGED <<saved_count, skipped_markets>>
    /\ market_i' = market_i + 1
    /\ pc' = "pw_loop"
    /\ UNCHANGED <<entry, remote, fetchVars, pureVars, saveVars, gate_calls, summary>>

\* Lines 235-243: the loop is over, the summary is printed.
PwSummary ==
    /\ pc = "pw_loop"
    /\ market_i > Len(markets)
    /\ summary' = [saved |-> saved_count, skipped |-> skipped_markets]
    /\ pc' = "done"
    /\ UNCHANGED <<entry, remote, fetchVars, pureVars, saveVars,
                   market_i, saved_count, skipped_markets, gate_calls>>

WalletIdle ==
    /\ market_i = 0
    /\ saved_count = 0
    /\ skipped_markets = <<>>
    /\ gate_calls = <<>>
    /\ summary = PyNone

(***************************************************************************)
(* get_all_user_activity called on its own                                 *)
(***************************************************************************)
TradeA == Activity(PyNone, PyInt(1700000000), PyStr("TRADE"), PyNone, PyStr("a"), PyStr("BUY"))

\* Dataset sizes: empty, one short page, one full page, [500, 500, 200],
\* 20 full pages, 20 full pages and a short one, 21 full pages, and more than
\* the fetcher ever asks for.
FetchRemoteLens == {0, 200, 500, 1200, 10000, 10200, 10500, 12000}
FetchBudgets == {0, 1200, 10000, 20000}

InitFetch ==
    /\ entry = "get_all_user_activity"
    /\ pc = "fetch_call"
    /\ remote \in {<<Run(n, TradeA, TRUE)>> : n \in FetchRemoteLens}
    /\ max_records \in FetchBudgets
    /\ offset = 0
    /\ all_activities = <<>>
    /\ requests = <<>>
    /\ request_error = ""
    /\ fetched = <<>>
    /\ activities = <<>>
    /\ unique_activities = <<>>
    /\ markets = <<>>
    /\ SaveIdle
    /\ WalletIdle

NextFetch ==
    \/ FetchEnter
    \/ FetchExit
    \/ FetchFail
    \/ FetchEmpty
    \/ FetchLastPage
    \/ FetchFullPage
    \/ FetchReturn

SpecFetch == InitFetch /\ [][NextFetch]_vars

\* The fetcher is one sequential thread: while it has a next step, it takes it.
SpecFetchFair == SpecFetch /\ WF_vars(NextFetch)

(***************************************************************************)
(* Properties of get_all_user_activity                                     *)
(***************************************************************************)
\* The pages the endpoint serves at the given offsets, concatenated in order.
RECURSIVE ConcatPages(_)
ConcatPages(offs) ==
    IF offs = <<>> THEN <<>>
    ELSE Page(remote, Head(offs), limit) \o ConcatPages(Tail(offs))

Returned == pc = "done" /\ entry = "get_all_user_activity"
Failed == request_error # ""
\* The requests that were answered with a page: all but a failed last one.
Answered == IF Failed THEN SubSeq(requests, 1, Len(requests) - 1) ELSE requests
RequestIssued == requests' # requests

\* C2 as stated: no page request is ever issued with an offset equal to or
\* greater than the ceiling of 10,000.
C2_NoRequestAtCeiling ==
    \A i \in 1..Len(requests) : requests[i] < OffsetCeiling

\* C2 amended: no page request is ever issued with an offset greater than the
\* ceiling of 10,000 (the request at offset 10,000 itself is issued), and the
\* offset never goes more than one page past the ceiling.
C2_NoRequestAboveCeiling ==
    /\ \A i \in 1..Len(requests) : requests[i] <= OffsetCeiling
    /\ offset <= OffsetCeiling + limit

\* The request at offset 10,000 was issued, answered with a full page, and the
\* fetcher stopped on the ceiling with the budget not reached.
C2_Witness ==
    /\ Returned
    /\ offset = OffsetCeiling + limit
    /\ requests[Len(requests)] = OffsetCeiling
    /\ Len(fetched) < max_records

\* C3: once a page request has failed, no further request is issued (the
\* failed offset is the last one requested, once), the call returns normally,
\* and the batch is the concatenation, in fetch order, of the pages received
\* before the failure.
C3_FailureStops ==
    /\ [](Failed =>
            /\ pc \in {"fetch_return", "done"}
            /\ requests[Len(requests)] = offset
            /\ \A i \in 1..(Len(requests) - 1) : requests[i] # offset
            /\ all_activities = ConcatPages(Answered)
            /\ (pc = "done" => fetched = ConcatPages(Answered)))
    /\ [][Failed => ~RequestIssued]_vars

\* A request failed after two pages were received, and the call returned them.
C3_Witness ==
    /\ Returned
    /\ Failed
    /\ requests = <<0, limit, 2 * limit>>
    /\ Len(fetched) = 2 * limit

\* C6: a page request is only issued while the accumulated count is strictly
\* below max_records; once the count has reached max_records the fetcher is
\* out of the loop's body for good and returns; with max_records = 0 no request
\* is made.
C6_BudgetStop ==
    /\ [][RequestIssued => Len(all_activities) < max_records]_vars
    /\ [][(pc = "fetch_loop" /\ Len(all_activities) >= max_records)
            => (pc' = "fetch_return" /\ all_activities' = all_activities)]_vars
    /\ [](max_records = 0 => requests = <<>>)
    /\ [](Returned /\ Len(requests) > 0
            => (Len(requests) - 1) * limit < max_records)

\* The budget of 1200 was reached by the third full page and the fetcher
\* returned without a fourth request.
C6_Witness ==
    /\ Returned
    /\ ~Failed
    /\ max_records = 1200
    /\ Len(fetched) >= max_records
    /\ Len(requests) = 3

\* The number of requests a dataset of len records takes when it ends in a
\* short page: its full pages, and the short one.
ShortPageRequests(len) == (len \div limit) + 1
EndsInShortPage(len) == len % limit # 0

\* C7: when the source serves k-1 full pages and then a short page of 1..499
\* records, with neither the budget nor the ceiling hit before page k, exactly
\* k requests are made, at offsets 0, 500, ..., 500*(k-1), and the returned
\* batch is the concatenation of all k pages.
C7_ShortPageTermination ==
    LET len == RemoteLenOf(remote)
        k == ShortPageRequests(len)
    IN (/\ Returned
        /\ ~Failed
        /\ EndsInShortPage(len)
        /\ limit * (k - 1) < max_records
        /\ limit * (k - 1) <= OffsetCeiling)
       => /\ requests = [i \in 1..k |-> limit * (i - 1)]
          /\ fetched = ConcatPages(requests)
          /\ Len(fetched) = len

\* Pages of sizes [500, 500, 200]: three requests, 1200 records.
C7_Witness ==
    /\ Returned
    /\ ~Failed
    /\ RemoteLenOf(remote) = 1200
    /\ max_records > 1200
    /\ requests = <<0, 500, 1000>>
    /\ Len(fetched) = 1200

\* A source that serves a full page at every offset the fetcher can ask for.
Unbounded == RemoteLenOf(remote) >= OffsetCeiling + limit

\* C8: the fetch loop terminates for every max_records, and against a source
\* of full pages only it stops once the offset exceeds 10,000: no request has
\* an offset greater than 10,000, and a run that did not fail ends with the
\* budget reached or the offset past the ceiling.
C8_BoundedTermination ==
    /\ <>(pc = "done")
    /\ [](Unbounded => \A i \in 1..Len(requests) : requests[i] <= OffsetCeiling)
    /\ [](Unbounded /\ Returned /\ ~Failed
            => /\ (Len(fetched) >= max_records \/ offset > OffsetCeiling)
               /\ requests = [i \in 1..Len(requests) |-> limit * (i - 1)])

\* Against full pages only and a budget of 20,000 the fetcher stopped with the
\* offset past the ceiling, after 21 requests.
C8_Witness ==
    /\ Returned
    /\ ~Failed
    /\ Unbounded
    /\ offset > OffsetCeiling
    /\ Len(requests) = 21
    /\ Len(fetched) < max_records

(***************************************************************************)
(* remove_duplicates and group_by_market called on their own               *)
(***************************************************************************)
MaxLen == 3

\* A structural record with no transactionHash, and the records that differ
\* from it in one key: timestamp, type, slug, side, an empty transactionHash, a
\* nested 'market' dict (with either slug), an absent and an empty slug.
Split1 == Activity(PyNone, PyInt(1), PyStr("SPLIT"), PyNone, PyStr("a"), PyNone)
\* Records with a transactionHash: two that share it and differ elsewhere, one
\* with another hash, one with no slug.
Trade1 == Activity(PyStr("0xh1"), PyInt(1), PyStr("TRADE"), PyNone, PyStr("a"), PyStr("BUY"))

PureActivities ==
    { Split1,
      [Split1 EXCEPT !.timestamp = PyInt(2)],
      [Split1 EXCEPT !.type = PyStr("MERGE")],
      [Split1 EXCEPT !.slug = PyStr("b")],
      [Split1 EXCEPT !.side = PyStr("BUY")],
      [Split1 EXCEPT !.transactionHash = PyStr("")],
      [Split1 EXCEPT !.market = PyDict(PyStr("a"))],
      [Split1 EXCEPT !.market = PyDict(PyStr("b")), !.slug = PyStr("b")],
      [Split1 EXCEPT !.slug = PyNone],
      [Split1 EXCEPT !.slug = PyStr("")],
      Trade1,
      [Trade1 EXCEPT !.timestamp = PyInt(2), !.slug = PyStr("b")],
      [Trade1 EXCEPT !.transactionHash = PyStr("0xh2")],
      [Trade1 EXCEPT !.slug = PyNone] }

Batches(n) == UNION {[1..k -> PureActivities] : k \in 0..n}

InitPure ==
    /\ entry \in {"remove_duplicates", "group_by_market"}
    /\ pc = "call"
    /\ activities \in Batches(MaxLen)
    /\ unique_activities = <<>>
    /\ markets = <<>>
    /\ remote = <<>>
    /\ max_records = 0
    /\ offset = 0
    /\ all_activities = <<>>
    /\ requests = <<>>
    /\ request_error = ""
    /\ fetched = <<>>
    /\ SaveIdle
    /\ WalletIdle

NextPure ==
    \/ RemoveDuplicatesCall
    \/ GroupByMarketCall

SpecPure == InitPure /\ [][NextPure]_vars

(***************************************************************************)
(* Properties of remove_duplicates                                         *)
(***************************************************************************)
Deduplicated == pc = "done" /\ entry = "remove_duplicates"

\* The elements of s at the indexes of I, in order.
RECURSIVE PickFrom(_, _, _)
PickFrom(s, I, i) ==
    IF i > Len(s) THEN <<>>
    ELSE IF i \in I THEN <<s[i]>> \o PickFrom(s, I, i + 1)
         ELSE PickFrom(s, I, i + 1)

NoHash(a) == ~Truthy(a.transactionHash)
\* The identity the specification gives a record with no transactionId: its
\* timestamp, recordType, groupKey (the slug group_by_market groups by), side.
FallbackIdentity(a) == <<a.timestamp, a.type, a.slug, a.side>>

\* C1: two records that both lack a transactionHash collapse to one retained
\* record if and only if they agree on timestamp, type, slug and side: a batch
\* of two such records is returned with one record when the four agree and
\* with both when any one of them differs.
C1_FallbackIdentity ==
    (/\ Deduplicated
     /\ Len(activities) = 2
     /\ NoHash(activities[1])
     /\ NoHash(activities[2]))
    => IF FallbackIdentity(activities[1]) = FallbackIdentity(activities[2])
       THEN unique_activities = <<activities[1]>>
       ELSE unique_activities = activities

\* The first occurrence of each identity, the identity being the key of lines
\* 104-113.
FirstOccurrences(s) ==
    {i \in 1..Len(s) : \A j \in 1..(i - 1) : unique_key(s[j]) # unique_key(s[i])}

\* C5: the output is the subsequence of the input made of the first record of
\* each distinct identity; of the records that share a non-empty
\* transactionHash exactly one is left, the earliest, and the retained records
\* keep their input order.
C5_FirstOccurrenceWins ==
    Deduplicated =>
      /\ unique_activities = PickFrom(activities, FirstOccurrences(activities), 1)
      /\ \A i \in 1..Len(activities) :
            LET h == activities[i].transactionHash
                first == CHOOSE j \in 1..i :
                           /\ activities[j].transactionHash = h
                           /\ \A l \in 1..(j - 1) : activities[l].transactionHash # h
                kept == {k \in 1..Len(unique_activities) :
                           unique_activities[k].transactionHash = h}
            IN Truthy(h) =>
                 /\ Cardinality(kept) = 1
                 /\ \A k \in kept : unique_activities[k] = activities[first]

\* Two records with the same transactionHash that differ elsewhere, with
\* another record between them: the earlier one and the other record are left.
C5_Witness ==
    /\ Deduplicated
    /\ Len(activities) = 3
    /\ Truthy(activities[1].transactionHash)
    /\ activities[1].transactionHash = activities[3].transactionHash
    /\ activities[1] # activities[3]
    /\ unique_key(activities[2]) # unique_key(activities[1])
    /\ unique_activities = <<activities[1], activities[2]>>

(***************************************************************************)
(* Properties of group_by_market                                           *)
(***************************************************************************)
Grouped == pc = "done" /\ entry = "group_by_market"

WithSlug(s, slug) == SelectSeq(s, LAMBDA a : a.slug = slug)
RECURSIVE GroupedCount(_)
GroupedCount(mkts) ==
    IF mkts = <<>> THEN 0
    ELSE Len(Head(mkts).activities) + GroupedCount(Tail(mkts))

\* C9: each record with a non-empty slug is in exactly one group, the one of
\* its slug, once; a record with an empty or missing slug is in no group; the
\* records of a group are the subsequence of the input with that slug.
C9_GroupingCompleteness ==
    Grouped =>
      /\ \A j \in 1..Len(markets) :
            /\ Truthy(markets[j].slug)
            /\ markets[j].activities = WithSlug(activities, markets[j].slug)
            /\ \A l \in 1..Len(markets) : markets[l].slug = markets[j].slug => l = j
      /\ \A i \in 1..Len(activities) :
            Truthy(activities[i].slug) <=>
              \E j \in 1..Len(markets) : markets[j].slug = activities[i].slug
      /\ GroupedCount(markets) =
            Len(SelectSeq(activities, LAMBDA a : Truthy(a.slug)))

\* Two records of one slug around a record with an empty or missing slug: one
\* group, holding the two.
C9_Witness ==
    /\ Grouped
    /\ Len(activities) = 3
    /\ ~Truthy(activities[2].slug)
    /\ activities[1].slug = activities[3].slug
    /\ activities[1] # activities[3]
    /\ Len(markets) = 1
    /\ markets[1].activities = <<activities[1], activities[3]>>

(***************************************************************************)
(* save_market_to_csv called on its own                                    *)
(***************************************************************************)
MaxGateRuns == 2

TradeB == [TradeA EXCEPT !.slug = PyStr("b")]
\* A structural record: no transactionHash, no timestamp.
SplitA == Activity(PyNone, PyNone, PyStr("SPLIT"), PyNone, PyStr("a"), PyNone)
\* A TRADE whose timestamp is no integer.
BadTimestampA == [TradeA EXCEPT !.timestamp = PyStr("abc")]

RunSeqs(runs, n) == UNION {[1..k -> runs] : k \in 0..n}
Positions(n) == [i \in 1..n |-> i]
AllRecords(runs) == Records(runs, Positions(RemoteLenOf(runs)))

\* The groups: up to MaxGateRuns runs of 29, 30 or one TRADE, one structural
\* record, one TRADE with a malformed timestamp.
GateRuns ==
    { Run(29, TradeA, TRUE), Run(30, TradeA, TRUE), Run(1, TradeA, TRUE),
      Run(1, SplitA, FALSE), Run(1, BadTimestampA, TRUE) }

\* A file an earlier run left at the path.
OldFile == [header |-> TRUE, rows |-> <<Row(SplitA)>>]

InitGate ==
    /\ entry = "save_market_to_csv"
    /\ pc = "save_call"
    /\ market_slug = PyStr("a")
    /\ market_activities \in {AllRecords(rs) : rs \in RunSeqs(GateRuns, MaxGateRuns)}
    /\ row_i = 0
    /\ result = PyNone
    /\ \/ dirs = {} /\ files = <<>>
       \/ dirs = {output_dir} /\ files = <<>>
       \/ dirs = {output_dir} /\ files = (FilePath(output_dir, PyStr("a")) :> OldFile)
    /\ exc = ""
    /\ remote = <<>>
    /\ max_records = 0
    /\ offset = 0
    /\ all_activities = <<>>
    /\ requests = <<>>
    /\ request_error = ""
    /\ fetched = <<>>
    /\ activities = <<>>
    /\ unique_activities = <<>>
    /\ markets = <<>>
    /\ WalletIdle

NextGate ==
    \/ SaveEmpty
    \/ SaveSkip
    \/ SaveMakedirs
    \/ SaveMakedirsFail
    \/ SaveOpen
    \/ SaveOpenFail
    \/ SaveWriteRow
    \/ SaveRowError
    \/ SaveWriteFail
    \/ SaveReturn

SpecGate == InitGate /\ [][NextGate]_vars

(***************************************************************************)
(* Properties of save_market_to_csv                                        *)
(***************************************************************************)
Trades(acts) == Cardinality({i \in 1..Len(acts) : acts[i].type = PyStr("TRADE")})
GateReturned == pc = "done" /\ entry = "save_market_to_csv"
Skipped == result.t = "dict"
Persisted == result.t = "str"

\* C10: a non-empty group is persisted if and only if it has at least 30 TRADE
\* records; a rejected group is reported as skipped with its trade count and
\* its call writes no file and creates no directory; only a group of at least
\* 30 TRADE records gets as far as a write; a persisted group has every record
\* written as one row, in group order.
C10_MaterialityThreshold ==
    /\ [](GateReturned /\ market_activities # <<>> =>
            /\ Persisted <=> Trades(market_activities) >= MinTrades
            /\ Skipped <=> Trades(market_activities) < MinTrades
            /\ Skipped => result = [t |-> "dict", slug |-> market_slug,
                                    trades |-> Trades(market_activities),
                                    skipped |-> TRUE]
            /\ Persisted =>
                 /\ output_dir \in dirs
                 /\ result.v \in DOMAIN files
                 /\ files[result.v].header
                 /\ files[result.v].rows =
                      [i \in 1..Len(market_activities) |-> Row(market_activities[i])])
    /\ [](pc \in {"save_open", "save_rows", "raised"} =>
            Trades(market_activities) >= MinTrades)
    /\ [][Trades(market_activities) < MinTrades => (dirs' = dirs /\ files' = files)]_vars

\* A group of exactly 30 TRADE records and a structural one was persisted: 31
\* rows, the structural record's among them.
C10_Witness ==
    /\ GateReturned
    /\ Trades(market_activities) = MinTrades
    /\ Len(market_activities) = MinTrades + 1
    /\ Persisted
    /\ Len(files[result.v].rows) = MinTrades + 1

\* A timestamp that is present and cannot be parsed as an integer epoch.
Malformed(ts) == Truthy(ts) /\ ~IntOf(ts).ok
Writing == entry = "save_market_to_csv" /\ pc \in {"save_rows", "done"}

\* C11: a record of a qualifying group whose timestamp cannot be parsed as an
\* integer gets a row whose datetime cell is the empty string, the write goes
\* on with the remaining records, and no exception is raised for it: the only
\* exception that leaves save_market_to_csv is an I/O error.
C11_MalformedTimestamp ==
    /\ exc \in {"", "OSError"}
    /\ (Writing /\ FilePath(output_dir, market_slug) \in DOMAIN files) =>
         LET rows == files[FilePath(output_dir, market_slug)].rows IN
         \A i \in 1..Min(Len(rows), Len(market_activities)) :
            Malformed(market_activities[i].timestamp) => rows[i].datetime = ""
    /\ (GateReturned /\ Trades(market_activities) >= MinTrades) => Persisted

(***************************************************************************)
(* process_wallet called                                                   *)
(***************************************************************************)
MaxWalletRuns == 2

\* A record with no slug, and a page of records that are one and the same.
NoSlug == [TradeA EXCEPT !.slug = PyNone]
SameB == [TradeB EXCEPT !.transactionHash = PyStr("0xsame")]

\* The remote datasets: up to MaxWalletRuns runs of 30 or 29 TRADE records of
\* a market, two equal structural records, a record with no slug, a TRADE with
\* a malformed timestamp, a full page of duplicates.
WalletRuns ==
    { Run(30, TradeA, TRUE), Run(29, TradeB, TRUE), Run(30, TradeB, TRUE),
      Run(2, SplitA, FALSE), Run(1, NoSlug, TRUE), Run(1, BadTimestampA, TRUE),
      Run(limit, SameB, FALSE) }

WalletBudgets == {0, 10000}

InitWallet ==
    /\ entry = "process_wallet"
    /\ pc = "pw_call"
    /\ remote \in RunSeqs(WalletRuns, MaxWalletRuns)
    /\ max_records \in WalletBudgets
    /\ offset = 0
    /\ all_activities = <<>>
    /\ requests = <<>>
    /\ request_error = ""
    /\ fetched = <<>>
    /\ activities = <<>>
    /\ unique_activities = <<>>
    /\ markets = <<>>
    /\ SaveIdle
    /\ WalletIdle

\* SaveEmpty is left out: group_by_market makes no empty group.
NextWallet ==
    \/ PwEnter
    \/ FetchEnter
    \/ FetchExit
    \/ FetchFail
    \/ FetchEmpty
    \/ FetchLastPage
    \/ FetchFullPage
    \/ FetchReturn
    \/ PwNoActivities
    \/ PwRemoveDuplicates
    \/ PwGroupByMarket
    \/ PwSaveMarket
    \/ SaveSkip
    \/ SaveMakedirs
    \/ SaveMakedirsFail
    \/ SaveOpen
    \/ SaveOpenFail
    \/ SaveWriteRow
    \/ SaveRowError
    \/ SaveWriteFail
    \/ SaveReturn
    \/ PwResult
    \/ PwSummary

SpecWallet == InitWallet /\ [][NextWallet]_vars

(***************************************************************************)
(* Properties of process_wallet                                            *)
(***************************************************************************)
MarketSlugs == [j \in 1..Len(markets) |-> markets[j].slug]

\* C4: when save_market_to_csv fails with an I/O error for one group, the
\* Persistence Gate is still invoked for every group of the run and the run
\* still produces its summary.
C4_FailureIsolation ==
    (entry = "process_wallet" /\ exc = "OSError" /\ pc = "raised")
    => /\ gate_calls = MarketSlugs
       /\ summary # PyNone

\* The positions of process_wallet up to the test of line 209, and its return.
BeforeDedup == {"pw_call", "fetch_call", "fetch_loop", "fetch_return", "pw_fetched", "done"}
WalletReturned == entry = "process_wallet" /\ pc = "done"

\* C12: when get_all_user_activity returns an empty batch, process_wallet
\* returns at once: it never gets to remove_duplicates, group_by_market or
\* save_market_to_csv, no directory or file is made, no group is saved and no
\* exception is raised.
C12_EmptyBatchShortCircuit ==
    /\ []((entry = "process_wallet" /\ fetched = <<>>) =>
            /\ pc \in BeforeDedup
            /\ activities = <<>>
            /\ markets = <<>>
            /\ gate_calls = <<>>
            /\ dirs = {}
            /\ files = <<>>
            /\ saved_count = 0
            /\ skipped_markets = <<>>
            /\ exc = "")
    /\ [][(pc = "pw_fetched" /\ fetched = <<>>) =>
            (pc' = "done" /\ UNCHANGED <<markets, saveVars, walletVars>>)]_vars

\* The first page request failed against a source that has records: the batch
\* is empty and process_wallet returned with nothing written.
C12_Witness ==
    /\ WalletReturned
    /\ fetched = <<>>
    /\ Failed
    /\ requests = <<0>>
    /\ RemoteLenOf(remote) > 0
    /\ gate_calls = <<>>
    /\ files = <<>>

\* The slugs of a batch that group_by_market takes, each once, in the order of
\* their first occurrence.
FirstSlugIndexes(s) ==
    {i \in 1..Len(s) :
        /\ Truthy(s[i].slug)
        /\ \A j \in 1..(i - 1) : s[j].slug # s[i].slug}
FirstSlugs(s) ==
    LET firsts == PickFrom(s, FirstSlugIndexes(s), 1)
    IN [k \in 1..Len(firsts) |-> firsts[k].slug]

\* The groups of a batch that are below the threshold, in group order, each
\* with its number of TRADE records.
BelowMinTrades(s) ==
    LET low == SelectSeq(FirstSlugs(s),
                         LAMBDA slug : Trades(WithSlug(s, slug)) < MinTrades)
    IN [k \in 1..Len(low) |-> <<low[k], Trades(WithSlug(s, low[k]))>>]

\* C13: a run of process_wallet that fetched a non-empty batch and returned
\* has called save_market_to_csv once for each group, in the order of the
\* first occurrence of the slugs in the deduplicated batch; saved_count plus
\* the length of skipped_markets is the number of groups; skipped_markets
\* holds exactly the groups with fewer than 30 TRADE records, each with its
\* TRADE count; the summary printed is made of these two.
C13_SummaryAccounting ==
    (WalletReturned /\ fetched # <<>>) =>
      /\ exc = ""
      /\ gate_calls = FirstSlugs(activities)
      /\ Len(markets) = Len(gate_calls)
      /\ saved_count + Len(skipped_markets) = Len(markets)
      /\ skipped_markets = BelowMinTrades(activities)
      /\ summary = [saved |-> saved_count, skipped |-> skipped_markets]

\* Two markets, the first met with 29 TRADE records and the second with 30:
\* the gate was called for both in that order, one was saved, the other is in
\* the skipped list with its count.
C13_Witness ==
    /\ WalletReturned
    /\ fetched # <<>>
    /\ gate_calls = <<PyStr("b"), PyStr("a")>>
    /\ saved_count = 1
    /\ skipped_markets = << <<PyStr("b"), 29>> >>
    /\ summary = [saved |-> 1, skipped |-> << <<PyStr("b"), 29>> >>]

====
